---------------------------- MODULE Spec2Model ----------------------------
(***************************************************************************)
(* LUKE (paddlenlp/transformers/luke/modeling.py): LukeModel.forward and   *)
(* the five task heads, as a state machine over one forward call.          *)
(*                                                                         *)
(* Tensors are nested sequences (1-based; source position p is index p+1).  *)
(* A hidden vector is a record [l, s, p]: the layer that produced it, the   *)
(* stream ("w" word, "e" entity) and the position of the input vector it    *)
(* was computed from position-wise.  Learned kernels (Linear, LayerNorm,    *)
(* softmax) are uninterpreted: their results are records naming the kernel  *)
(* and its operands.  Shape operations (unsqueeze, concat, slicing, gather, *)
(* broadcast) are computed.                                                 *)
(***************************************************************************)
EXTENDS Integers, Sequences, FiniteSets, TLC

\* ---- bounds of the model
MaxBatch == 1
MaxWord == 2
MaxEnt == 2
MaxLayers == 2
hidden_size == 2
num_attention_heads == 2
num_labels == 2
\* largest extent of an axis of the tensors passed to paddle_gather directly
MaxExtent == 2

\* ---- program constants
pad_token_id == 1
entity_pad_token_id == 0
MASK_BIAS == -10000
\* a token / entity id that is neither pad id
TOKEN_ID == pad_token_id + entity_pad_token_id + 1

\* float32 infinities (out of the range of every finite value of the model)
NegInf == MASK_BIAS * 10000
PosInf == -NegInf

\* Python None for an optional id tensor, and for an optional mask
None == <<>>
NoneMask == [dtype |-> "none", ndim |-> 0, data |-> <<>>]

VARIABLES
    num_hidden_layers,      \* config.num_hidden_layers: len(encoder.layer)
    pc,                     \* position of the forward call
    input_ids,              \* [batch, seq] ids
    entity_ids,             \* [batch, entity_seq] ids, or None
    arg_attention_mask,     \* attention_mask as the caller passed it
    arg_entity_attention_mask,
    attention_mask,         \* the local attention_mask (reassigned by forward)
    input_shape,            \* <<batch_size, seq_length>>
    entity_shape,           \* <<batch_size, entity_seq_length>>, None without entities
    word_hidden_states,     \* encoder loop variable
    entity_hidden_states,   \* encoder loop variable (None without entities)
    layer_i,                \* number of encoder layers applied so far
    self_outputs,           \* LukeSelfAttention's outputs in the last layer applied
    self_attention_outputs, \* LukeAttention's outputs in the last layer applied
    outputs,                \* what LukeModel.forward returned
    head,                   \* the class whose forward is running
    entity_start_positions,
    entity_end_positions,
    result,                 \* what the head's forward returned (or raised)
    gather_x,               \* paddle_gather called directly: its argument x
    gather_dim,             \* its argument dim
    gather_index,           \* its argument index
    paddle_out              \* what it returned (or raised)

vars == <<num_hidden_layers, pc, input_ids, entity_ids, arg_attention_mask,
          arg_entity_attention_mask, attention_mask, input_shape, entity_shape,
          word_hidden_states, entity_hidden_states, layer_i,
          self_outputs, self_attention_outputs, outputs, head,
          entity_start_positions, entity_end_positions, result,
          gather_x, gather_dim, gather_index, paddle_out>>

\* the state of a direct call of paddle_gather, which no forward touches
GatherFrame == <<gather_x, gather_dim, gather_index, paddle_out>>

\* ---- float arithmetic used by the mask code
\* 1.0 - x
FSubFromOne(x) == IF x = NegInf THEN PosInf ELSE IF x = PosInf THEN NegInf ELSE 1 - x
\* x * -1e4
FMulBias(x) == IF x = PosInf THEN NegInf ELSE IF x = NegInf THEN PosInf ELSE x * MASK_BIAS

\* a function on 1..n as the tuple of its values
Tup(f) == f \o <<>>

\* ---- shape operations
\* x.unsqueeze(axis=[1, 2]) of a [batch, n] tensor: [batch, 1, 1, n]
Unsqueeze12(x) == Tup([b \in 1..Len(x) |-> << << x[b] >> >>])

\* paddle.concat([x, y], axis=-1) of two rank-4 tensors
ConcatLast(x, y) ==
    Tup([b \in 1..Len(x) |->
        Tup([h \in 1..Len(x[b]) |->
            Tup([i \in 1..Len(x[b][h]) |-> x[b][h][i] \o y[b][h][i]])])])

\* paddle.concat([x, y], axis=1) of two [batch, n, hidden] tensors
ConcatSeq(x, y) == Tup([b \in 1..Len(x) |-> x[b] \o y[b]])

\* t[:, :n, :] and t[:, n:, :]
SliceTo(t, n) == Tup([b \in 1..Len(t) |-> SubSeq(t[b], 1, n)])
SliceFrom(t, n) == Tup([b \in 1..Len(t) |-> SubSeq(t[b], n + 1, Len(t[b]))])

\* element of a dimension that broadcasts when its extent is 1
Bcast(s, i) == IF Len(s) = 1 THEN s[1] ELSE s[i]

\* ---- LukeModel.forward: the attention mask
\* (ids == pad).astype(float) * -1e4, unsqueezed to [batch, 1, 1, n]
PadMask(ids, pad) ==
    Unsqueeze12(Tup([b \in 1..Len(ids) |->
        Tup([j \in 1..Len(ids[b]) |-> (IF ids[b][j] = pad THEN 1 ELSE 0) * MASK_BIAS])]))

\* ScaleMask without the inversion: mask * -1e4
ScaleMask_not_inverted(data) ==
    Unsqueeze12(Tup([b \in 1..Len(data) |->
        Tup([j \in 1..Len(data[b]) |-> FMulBias(data[b][j])])]))

\* (1.0 - mask.unsqueeze(axis=[1, 2])) * -1e4
ScaleMask(data) ==
    Unsqueeze12(Tup([b \in 1..Len(data) |->
        Tup([j \in 1..Len(data[b]) |-> FMulBias(FSubFromOne(data[b][j]))])]))

\* the branch taken for the word mask and again for the entity mask
ExtendedMask(ids, mask, pad) ==
    IF mask.dtype = "none" THEN PadMask(ids, pad)
    ELSE IF mask.ndim = 2 THEN ScaleMask(mask.data)
    ELSE mask.data

\* LukeModel_attention_mask concatenating the entity mask first
LukeModel_attention_mask_entity_first(ids, mask, eids, emask) ==
    IF eids # None
    THEN ConcatLast(ExtendedMask(eids, emask, entity_pad_token_id),
                    ExtendedMask(ids, mask, pad_token_id))
    ELSE ExtendedMask(ids, mask, pad_token_id)

\* lines 553-575
LukeModel_attention_mask(ids, mask, eids, emask) ==
    IF eids # None
    THEN ConcatLast(ExtendedMask(ids, mask, pad_token_id),
                    ExtendedMask(eids, emask, entity_pad_token_id))
    ELSE ExtendedMask(ids, mask, pad_token_id)

\* ---- embeddings (lines 577-586): one vector per input position
WordEmbeddings(ids) ==
    Tup([b \in 1..Len(ids) |-> Tup([j \in 1..Len(ids[b]) |-> [l |-> 0, s |-> "w", p |-> j - 1]])])

\* EntityEmbeddings that keeps only the first entity of every item
EntityEmbeddings_first_only(eids) ==
    Tup([b \in 1..Len(eids) |-> Tup([j \in 1..1 |-> [l |-> 0, s |-> "e", p |-> j - 1]])])

EntityEmbeddings(eids) ==
    Tup([b \in 1..Len(eids) |-> Tup([j \in 1..Len(eids[b]) |-> [l |-> 0, s |-> "e", p |-> j - 1]])])

\* ---- LukeSelfAttention
\* transpose_for_scores(proj(x)): [batch, heads, seq] of per-head projections
Project(name, x) ==
    Tup([b \in 1..Len(x) |->
        Tup([h \in 1..num_attention_heads |->
            Tup([i \in 1..Len(x[b]) |-> [proj |-> name, x |-> x[b][i], head |-> h]])])])

\* layer[:, :, :n, :] and layer[:, :, n:, :]
KeysTo(layer, n) ==
    Tup([b \in 1..Len(layer) |-> Tup([h \in 1..Len(layer[b]) |-> SubSeq(layer[b][h], 1, n)])])
KeysFrom(layer, n) ==
    Tup([b \in 1..Len(layer) |->
        Tup([h \in 1..Len(layer[b]) |-> SubSeq(layer[b][h], n + 1, Len(layer[b][h]))])])

\* paddle.matmul(q, k.transpose((0, 1, 3, 2))): entry (i, j) is the dot product of
\* query vector i and key vector j of the same head
MatMulT(q, k) ==
    Tup([b \in 1..Len(q) |->
        Tup([h \in 1..Len(q[b]) |->
            Tup([i \in 1..Len(q[b][h]) |->
                Tup([j \in 1..Len(k[b][h]) |->
                    [q |-> q[b][h][i].proj, x |-> q[b][h][i].x,
                     k |-> k[b][h][j].proj, y |-> k[b][h][j].x, head |-> h]])])])])

\* paddle.concat([x, y], axis=2) of two rank-4 tensors
ConcatRows(x, y) ==
    Tup([b \in 1..Len(x) |-> Tup([h \in 1..Len(x[b]) |-> x[b][h] \o y[b][h]])])

\* RawScores with the two cross-stream query projections exchanged
RawScores_cross_swapped(word, ent) ==
    LET word_size == Len(word[1])
        concat_hidden_states == IF ent = None THEN word ELSE ConcatSeq(word, ent)
        key_layer == Project("key", concat_hidden_states)
    IN  IF ent # None
        THEN ConcatRows(
                 ConcatLast(MatMulT(Project("query", word), KeysTo(key_layer, word_size)),
                            MatMulT(Project("e2w_query", word), KeysFrom(key_layer, word_size))),
                 ConcatLast(MatMulT(Project("w2e_query", ent), KeysTo(key_layer, word_size)),
                            MatMulT(Project("e2e_query", ent), KeysFrom(key_layer, word_size))))
        ELSE MatMulT(Project("query", concat_hidden_states), key_layer)

\* lines 237-270: the raw score matrix
RawScores(word, ent) ==
    LET word_size == Len(word[1])
        concat_hidden_states == IF ent = None THEN word ELSE ConcatSeq(word, ent)
        key_layer == Project("key", concat_hidden_states)
    IN  IF ent # None
        THEN LET w2w_query_layer == Project("query", word)
                 w2e_query_layer == Project("w2e_query", word)
                 e2w_query_layer == Project("e2w_query", ent)
                 e2e_query_layer == Project("e2e_query", ent)
                 w2w_key_layer == KeysTo(key_layer, word_size)
                 e2w_key_layer == KeysTo(key_layer, word_size)
                 w2e_key_layer == KeysFrom(key_layer, word_size)
                 e2e_key_layer == KeysFrom(key_layer, word_size)
                 w2w_attention_scores == MatMulT(w2w_query_layer, w2w_key_layer)
                 w2e_attention_scores == MatMulT(w2e_query_layer, w2e_key_layer)
                 e2w_attention_scores == MatMulT(e2w_query_layer, e2w_key_layer)
                 e2e_attention_scores == MatMulT(e2e_query_layer, e2e_key_layer)
                 word_attention_scores ==
                     ConcatLast(w2w_attention_scores, w2e_attention_scores)
                 entity_attention_scores ==
                     ConcatLast(e2w_attention_scores, e2e_attention_scores)
             IN  ConcatRows(word_attention_scores, entity_attention_scores)
        ELSE MatMulT(Project("query", concat_hidden_states), key_layer)

\* lines 276-279: scores / sqrt(head_size) + attention_mask, the mask broadcast
\* over the dimensions in which its extent is 1
AddMask(scores, mask) ==
    Tup([b \in 1..Len(scores) |->
        Tup([h \in 1..Len(scores[b]) |->
            Tup([i \in 1..Len(scores[b][h]) |->
                Tup([j \in 1..Len(scores[b][h][i]) |->
                    [dot |-> scores[b][h][i][j],
                     bias |-> Bcast(Bcast(Bcast(mask, b), h), i)[j]]])])])])

LukeSelfAttention_scores(word, ent, mask) == AddMask(RawScores(word, ent), mask)

\* lines 282-294: softmax, matmul with the values, heads merged: row i of the
\* context layer is the attention output of the query of score row i
ContextLayer(scores) ==
    Tup([b \in 1..Len(scores) |->
        Tup([i \in 1..Len(scores[b][1]) |-> scores[b][1][i][1].dot.x])])

\* lines 231-304
LukeSelfAttention_forward(word, ent, mask) ==
    LET word_size == Len(word[1])
        context_layer == ContextLayer(LukeSelfAttention_scores(word, ent, mask))
    IN  << SliceTo(context_layer, word_size),
           IF ent = None THEN None ELSE SliceFrom(context_layer, word_size) >>

\* LukeSelfOutput / LukeOutput: dense, dropout, layer_norm(hidden + input), all
\* position-wise; the vector at index i is computed from index i of both operands
PositionWise(hidden, input_tensor) ==
    Tup([b \in 1..Len(hidden) |->
        Tup([i \in 1..Len(hidden[b]) |->
            IF hidden[b][i] = input_tensor[b][i]
            THEN hidden[b][i]
            ELSE [l |-> hidden[b][i].l, s |-> "mixed", p |-> hidden[b][i].p]])])

\* lines 319-339, from the self_outputs of line 320
LukeAttention_forward(self_outs, word, ent) ==
    LET word_size == Len(word[1])
        concat_self_outputs ==
            IF ent = None THEN self_outs[1] ELSE ConcatSeq(self_outs[1], self_outs[2])
        concat_hidden_states == IF ent = None THEN word ELSE ConcatSeq(word, ent)
    IN  << SliceTo(PositionWise(concat_self_outputs, concat_hidden_states), word_size),
           IF ent = None THEN None
           ELSE SliceFrom(PositionWise(concat_self_outputs, concat_hidden_states), word_size) >>

\* the output of a layer is one layer deeper than its input
Deeper(t) ==
    Tup([b \in 1..Len(t) |-> Tup([i \in 1..Len(t[b]) |-> [t[b][i] EXCEPT !.l = @ + 1]])])

\* feed_forward_chunk (lines 382-385): intermediate, then output position-wise
\* on the intermediate result and the attention output it was computed from
FeedForwardChunk(attention_output) == Deeper(PositionWise(attention_output, attention_output))

\* LukeLayer_forward that returns the entity slice before the word slice
LukeLayer_forward_entity_first(attn_outs, word, ent) ==
    LET word_size == Len(word[1])
        concat_attention_output ==
            IF ent = None THEN attn_outs[1] ELSE ConcatSeq(attn_outs[1], attn_outs[2])
    IN  IF ent = None THEN << SliceTo(FeedForwardChunk(concat_attention_output), word_size), None >>
        ELSE << SliceFrom(FeedForwardChunk(concat_attention_output), word_size),
                SliceTo(FeedForwardChunk(concat_attention_output), word_size) >>

\* lines 356-380, from the self_attention_outputs of line 358
LukeLayer_forward(attn_outs, word, ent) ==
    LET word_size == Len(word[1])
        concat_attention_output ==
            IF ent = None THEN attn_outs[1] ELSE ConcatSeq(attn_outs[1], attn_outs[2])
    IN  << SliceTo(FeedForwardChunk(concat_attention_output), word_size),
           IF ent = None THEN None
           ELSE SliceFrom(FeedForwardChunk(concat_attention_output), word_size) >>

\* LukePooler_forward that pools the last token instead of the first
LukePooler_forward_last_token(hidden_states) ==
    Tup([b \in 1..Len(hidden_states) |->
        Tup([h \in 1..hidden_size |->
            [op |-> "pooler", x |-> hidden_states[b][Len(hidden_states[b])], h |-> h]])])

\* ---- LukePooler (lines 162-168): dense and tanh of hidden_states[:, 0]
LukePooler_forward(hidden_states) ==
    LET first_token_tensor == Tup([b \in 1..Len(hidden_states) |-> hidden_states[b][1]])
    IN  Tup([b \in 1..Len(hidden_states) |->
            Tup([h \in 1..hidden_size |->
                [op |-> "pooler", x |-> first_token_tensor[b], h |-> h]])])

\* ---- paddle_gather (lines 41-59) on rank-3 tensors
Shape3(t) == << Len(t), Len(t[1]), Len(t[1][1]) >>

\* number of elements of a tensor of shape sh
Numel(sh) == sh[1] * sh[2] * sh[3]

\* coordinate on axis k (0-based) of the flat (row-major, 0-based) position n
\* in a tensor of shape sh
Coord(n, sh, k) ==
    IF k = 0 THEN n \div (sh[2] * sh[3])
    ELSE IF k = 1 THEN (n \div sh[3]) % sh[2]
    ELSE n % sh[3]

\* t.flatten(): flat position n is kept at index n + 1
Flatten3(t) ==
    Tup([m \in 1..Numel(Shape3(t)) |->
            t[Coord(m - 1, Shape3(t), 0) + 1][Coord(m - 1, Shape3(t), 1) + 1]
             [Coord(m - 1, Shape3(t), 2) + 1]])

\* ExpandArange that reads coordinate 0 on every axis it fills
ExpandArange_zero(extent, k, index_shape) ==
    Tup([m \in 1..Numel(index_shape) |-> 0])

\* paddle.expand(arange(extent).reshape(1.., extent at axis k, ..1), index_shape)
\* .flatten(), defined when extent is 1 or the extent of index on axis k
ExpandArange(extent, k, index_shape) ==
    Tup([m \in 1..Numel(index_shape) |->
            IF extent = 1 THEN 0 ELSE Coord(m - 1, index_shape, k)])

\* nd_index (lines 46-56): one flat coordinate list per axis of x
NdIndex(x, dim, index) ==
    << IF dim = 0 THEN Flatten3(index) ELSE ExpandArange(Shape3(x)[1], 0, Shape3(index)),
       IF dim = 1 THEN Flatten3(index) ELSE ExpandArange(Shape3(x)[2], 1, Shape3(index)),
       IF dim = 2 THEN Flatten3(index) ELSE ExpandArange(Shape3(x)[3], 2, Shape3(index)) >>

\* paddle.gather_nd(x, transpose(stack(nd))) (lines 57-58), still flat
GatherNd(x, nd) ==
    Tup([m \in 1..Len(nd[1]) |-> x[nd[1][m] + 1][nd[2][m] + 1][nd[3][m] + 1]])

\* flat.reshape(sh)
Reshape3(flat, sh) ==
    Tup([b \in 1..sh[1] |->
        Tup([k \in 1..sh[2] |->
            Tup([h \in 1..sh[3] |->
                flat[(b - 1) * sh[2] * sh[3] + (k - 1) * sh[3] + h]])])])

\* paddle_gather without line 44 (a negative dim is not counted from the end)
paddle_gather_no_dim_norm(x, dim, index) ==
    Reshape3(GatherNd(x, NdIndex(x, dim, index)), Shape3(index))

\* lines 41-59
paddle_gather(x, dim, index) ==
    Reshape3(GatherNd(x, NdIndex(x, IF dim < 0 THEN 3 + dim ELSE dim, index)), Shape3(index))

\* ---- the heads
Ok(v) == [status |-> "ok", value |-> v]
Raised == [status |-> "error", value |-> <<>>]

\* a [batch, n] tensor of hidden vectors as the [batch, n, hidden_size] tensor
\* of their components
Components(t) ==
    Tup([b \in 1..Len(t) |->
        Tup([i \in 1..Len(t[b]) |-> Tup([h \in 1..hidden_size |-> [v |-> t[b][i], h |-> h]])])])

\* a Linear (with its activation / norm) applied to every vector of [batch, n]
Apply(name, t) ==
    Tup([b \in 1..Len(t) |-> Tup([i \in 1..Len(t[b]) |-> [op |-> name, x |-> t[b][i]]])])

\* nn.Linear(in, num_labels) applied to one feature vector
Classifier(feature) == Tup([n \in 1..num_labels |-> [op |-> "classifier", x |-> feature, n |-> n]])

\* lines 751-754
LukeForMaskedLM_forward(outs) ==
    IF outs[2] = None THEN Raised
    ELSE Ok(<< Apply("lm_head", outs[1]), Apply("entity_predictions", outs[2]) >>)

\* lines 840-844
LukeForEntityClassification_forward(outs) ==
    IF outs[2] = None THEN Raised
    ELSE Ok(Tup([b \in 1..Len(outs[2]) |-> Classifier(<< outs[2][b][1] >>)]))

\* lines 931-935
LukeForEntityPairClassification_forward(outs) ==
    IF outs[2] = None THEN Raised
    ELSE IF Len(outs[2][1]) < 2 THEN Raised
    ELSE Ok(Tup([b \in 1..Len(outs[2]) |-> Classifier(<< outs[2][b][1], outs[2][b][2] >>)]))

\* index.unsqueeze(-1).expand((-1, -1, hidden_size))
ExpandHidden(pos, hidden) ==
    Tup([b \in 1..Len(pos) |-> Tup([k \in 1..Len(pos[b]) |-> Tup([h \in 1..hidden |-> pos[b][k]])])])

\* paddle.concat([x, y, z], axis=2) of rank-3 tensors
Concat3Last(x, y, z) ==
    Tup([b \in 1..Len(x) |-> Tup([k \in 1..Len(x[b]) |-> x[b][k] \o y[b][k] \o z[b][k]])])

\* lines 1028-1039
LukeForEntitySpanClassification_forward(outs, starts, ends) ==
    LET x == Components(outs[1])
        hidden == Shape3(x)[3]
        start_states == paddle_gather(x, -2, ExpandHidden(starts, hidden))
        end_states == paddle_gather(x, -2, ExpandHidden(ends, hidden))
    IN  IF outs[2] = None THEN Raised
        ELSE IF Len(outs[2][1]) # Len(starts[1]) \/ Len(outs[2][1]) # Len(ends[1])
        THEN Raised
        ELSE LET feature_vector == Concat3Last(start_states, end_states, Components(outs[2]))
             IN  Ok(Tup([b \in 1..Len(feature_vector) |->
                        Tup([k \in 1..Len(feature_vector[b]) |->
                            Classifier(feature_vector[b][k])])]))

\* lines 1125-1131
LukeForQuestionAnswering_forward(outs, shape) ==
    LET word == SliceTo(outs[1], shape[2])
    IN  Ok(<< Tup([b \in 1..Len(word) |->
                 Tup([i \in 1..Len(word[b]) |-> [op |-> "qa_outputs", x |-> word[b][i], n |-> 0]])]),
              Tup([b \in 1..Len(word) |->
                 Tup([i \in 1..Len(word[b]) |-> [op |-> "qa_outputs", x |-> word[b][i], n |-> 1]])]) >>)

\* ---- the inputs of a call
Batches == 1..MaxBatch

\* a row of n ids: tokens followed by k pads (right padding), for every k
IdRows(n, pad) == {[j \in 1..n |-> IF j > n - k THEN pad ELSE TOKEN_ID] : k \in 0..n}

\* id tensors [B, n]
IdTensors(B, n, pad) == [1..B -> IdRows(n, pad)]

\* The masks a caller passes with ids: none, or the padding mask of the ids in
\* one of the documented encodings (int 0/1 of shape [batch, n]; float -INF/0 of
\* shape [batch, n] or [batch, 1, 1, n]).
MaskKinds == {"none", "int2", "float2", "float4"}

\* a caller that passes both masks builds them in the same encoding
EntityMaskKinds(kind) == IF kind = "none" THEN MaskKinds ELSE {"none", kind}

MaskOf(ids, pad, kind) ==
    LET ints == [b \in 1..Len(ids) |->
                    [j \in 1..Len(ids[b]) |-> IF ids[b][j] = pad THEN 0 ELSE 1]]
        floats == [b \in 1..Len(ids) |->
                    [j \in 1..Len(ids[b]) |-> IF ids[b][j] = pad THEN NegInf ELSE 0]]
    IN  IF kind = "none" THEN NoneMask
        ELSE IF kind = "int2" THEN [dtype |-> "int64", ndim |-> 2, data |-> ints]
        ELSE IF kind = "float2" THEN [dtype |-> "float32", ndim |-> 2, data |-> floats]
        ELSE [dtype |-> "float32", ndim |-> 4, data |-> Unsqueeze12(floats)]

\* ---- the state machine
Init ==
    /\ num_hidden_layers \in 0..MaxLayers
    /\ pc = "idle"
    /\ input_ids = None
    /\ entity_ids = None
    /\ arg_attention_mask = NoneMask
    /\ arg_entity_attention_mask = NoneMask
    /\ attention_mask = None
    /\ input_shape = None
    /\ entity_shape = None
    /\ word_hidden_states = None
    /\ entity_hidden_states = None
    /\ layer_i = 0
    /\ self_outputs = None
    /\ self_attention_outputs = None
    /\ outputs = None
    /\ head = "none"
    /\ entity_start_positions = None
    /\ entity_end_positions = None
    /\ result = [status |-> "none", value |-> <<>>]
    /\ gather_x = None
    /\ gather_dim = 0
    /\ gather_index = None
    /\ paddle_out = [status |-> "none", value |-> <<>>]

\* a forward is entered with its arguments bound (lines 450-460)
Call ==
    /\ pc = "idle"
    /\ \E B \in Batches : \E W \in 1..MaxWord : \E ids \in IdTensors(B, W, pad_token_id) :
       \E kind \in MaskKinds :
          /\ input_ids' = ids
          /\ arg_attention_mask' = MaskOf(ids, pad_token_id, kind)
          /\ \/ /\ entity_ids' = None
                /\ arg_entity_attention_mask' \in
                      {NoneMask} \cup {MaskOf(eids, entity_pad_token_id, "int2") :
                                         eids \in IdTensors(B, 1, entity_pad_token_id)}
             \/ \E E \in 1..MaxEnt : \E eids \in IdTensors(B, E, entity_pad_token_id) :
                  \E ekind \in EntityMaskKinds(kind) :
                    /\ entity_ids' = eids
                    /\ arg_entity_attention_mask' = MaskOf(eids, entity_pad_token_id, ekind)
    /\ pc' = "mask"
    /\ UNCHANGED <<num_hidden_layers, attention_mask, input_shape, entity_shape,
                   word_hidden_states,
                   entity_hidden_states, layer_i, self_outputs,
                   self_attention_outputs, outputs, head,
                   entity_start_positions, entity_end_positions, result>>
    /\ UNCHANGED GatherFrame

\* BuildAttentionMask that writes the extended mask into the tensor the caller
\* passed (in-place unsqueeze and scale) instead of building a new one
BuildAttentionMask_in_place ==
    /\ pc = "mask"
    /\ input_shape' = << Len(input_ids), Len(input_ids[1]) >>
    /\ entity_shape' =
           IF entity_ids # None THEN << Len(entity_ids), Len(entity_ids[1]) >> ELSE None
    /\ attention_mask' = LukeModel_attention_mask(input_ids, arg_attention_mask,
                                                  entity_ids, arg_entity_attention_mask)
    /\ arg_attention_mask' =
           IF arg_attention_mask.ndim = 2
           THEN [arg_attention_mask EXCEPT
                    !.ndim = 4,
                    !.data = ExtendedMask(input_ids, arg_attention_mask, pad_token_id)]
           ELSE arg_attention_mask
    /\ pc' = "embed"
    /\ UNCHANGED <<num_hidden_layers, input_ids, entity_ids,
                   arg_entity_attention_mask, word_hidden_states, entity_hidden_states,
                   layer_i, self_outputs, self_attention_outputs,
                   outputs, head, entity_start_positions, entity_end_positions, result>>
    /\ UNCHANGED GatherFrame

\* LukeModel.forward lines 549-575
BuildAttentionMask ==
    /\ pc = "mask"
    /\ input_shape' = << Len(input_ids), Len(input_ids[1]) >>
    /\ entity_shape' =
           IF entity_ids # None THEN << Len(entity_ids), Len(entity_ids[1]) >> ELSE None
    /\ attention_mask' = LukeModel_attention_mask(input_ids, arg_attention_mask,
                                                  entity_ids, arg_entity_attention_mask)
    /\ pc' = "embed"
    /\ UNCHANGED <<num_hidden_layers, input_ids, entity_ids, arg_attention_mask,
                   arg_entity_attention_mask, word_hidden_states, entity_hidden_states,
                   layer_i, self_outputs, self_attention_outputs,
                   outputs, head, entity_start_positions, entity_end_positions, result>>
    /\ UNCHANGED GatherFrame

\* LukeModel.forward lines 577-586
Embed ==
    /\ pc = "embed"
    /\ word_hidden_states' = WordEmbeddings(input_ids)
    /\ entity_hidden_states' =
           IF entity_ids = None THEN None ELSE EntityEmbeddings(entity_ids)
    /\ layer_i' = 0
    /\ pc' = "encoder"
    /\ UNCHANGED <<num_hidden_layers, input_ids, entity_ids, arg_attention_mask,
                   arg_entity_attention_mask, attention_mask, input_shape, entity_shape,
                   self_outputs, self_attention_outputs, outputs, head,
                   entity_start_positions, entity_end_positions, result>>
    /\ UNCHANGED GatherFrame

\* EncoderLayer that runs layer i but leaves the loop variables bound to its
\* inputs, so that layer i + 1 does not get the outputs of layer i
EncoderLayer_outputs_dropped ==
    /\ pc = "encoder"
    /\ layer_i < num_hidden_layers
    /\ self_outputs' =
           LukeSelfAttention_forward(word_hidden_states, entity_hidden_states, attention_mask)
    /\ self_attention_outputs' =
           LukeAttention_forward(self_outputs', word_hidden_states, entity_hidden_states)
    /\ layer_i' = layer_i + 1
    /\ UNCHANGED <<num_hidden_layers, pc, input_ids, entity_ids, arg_attention_mask,
                   arg_entity_attention_mask, attention_mask, input_shape, entity_shape,
                   word_hidden_states, entity_hidden_states,
                   outputs, head, entity_start_positions, entity_end_positions, result>>
    /\ UNCHANGED GatherFrame

\* LukeEncoder.forward lines 400-411: one iteration of the loop, which runs
\* LukeLayer.forward, LukeAttention.forward and LukeSelfAttention.forward
EncoderLayer ==
    /\ pc = "encoder"
    /\ layer_i < num_hidden_layers
    /\ self_outputs' =
           LukeSelfAttention_forward(word_hidden_states, entity_hidden_states, attention_mask)
    /\ self_attention_outputs' =
           LukeAttention_forward(self_outputs', word_hidden_states, entity_hidden_states)
    /\ LET layer_outputs ==
               LukeLayer_forward(self_attention_outputs', word_hidden_states,
                                 entity_hidden_states)
       IN  /\ word_hidden_states' = layer_outputs[1]
           /\ entity_hidden_states' =
                  IF entity_hidden_states # None THEN layer_outputs[2]
                  ELSE entity_hidden_states
    /\ layer_i' = layer_i + 1
    /\ UNCHANGED <<num_hidden_layers, pc, input_ids, entity_ids, arg_attention_mask,
                   arg_entity_attention_mask, attention_mask, input_shape, entity_shape,
                   outputs, head, entity_start_positions, entity_end_positions, result>>
    /\ UNCHANGED GatherFrame

\* LukeEncoder.forward line 413 and LukeModel.forward lines 595-599; the
\* arguments and locals that no head reads afterwards leave the state
LukeModelReturn ==
    /\ pc = "encoder"
    /\ layer_i = num_hidden_layers
    /\ LET sequence_output == word_hidden_states
           pooled_output == LukePooler_forward(sequence_output)
       IN  outputs' = << sequence_output, entity_hidden_states, pooled_output >>
    /\ pc' = "head"
    /\ input_ids' = None
    /\ entity_ids' = None
    /\ arg_attention_mask' = NoneMask
    /\ arg_entity_attention_mask' = NoneMask
    /\ attention_mask' = None
    /\ word_hidden_states' = None
    /\ entity_hidden_states' = None
    /\ self_outputs' = None
    /\ self_attention_outputs' = None
    /\ UNCHANGED <<num_hidden_layers, input_shape, entity_shape, layer_i, head,
                   entity_start_positions, entity_end_positions, result>>
    /\ UNCHANGED GatherFrame

HeadFrame == <<num_hidden_layers, input_ids, entity_ids, arg_attention_mask,
               arg_entity_attention_mask, attention_mask, input_shape, entity_shape,
               word_hidden_states, entity_hidden_states, layer_i, self_outputs, self_attention_outputs, outputs>>

\* the caller called LukeModel itself
LukeModelCaller ==
    /\ pc = "head"
    /\ head' = "LukeModel"
    /\ result' = Ok(outputs)
    /\ pc' = "done"
    /\ UNCHANGED <<HeadFrame, entity_start_positions, entity_end_positions>>
    /\ UNCHANGED GatherFrame

MaskedLM ==
    /\ pc = "head"
    /\ head' = "LukeForMaskedLM"
    /\ result' = LukeForMaskedLM_forward(outputs)
    /\ pc' = "done"
    /\ UNCHANGED <<HeadFrame, entity_start_positions, entity_end_positions>>
    /\ UNCHANGED GatherFrame

EntityClassification ==
    /\ pc = "head"
    /\ head' = "LukeForEntityClassification"
    /\ result' = LukeForEntityClassification_forward(outputs)
    /\ pc' = "done"
    /\ UNCHANGED <<HeadFrame, entity_start_positions, entity_end_positions>>
    /\ UNCHANGED GatherFrame

EntityPairClassification ==
    /\ pc = "head"
    /\ head' = "LukeForEntityPairClassification"
    /\ result' = LukeForEntityPairClassification_forward(outputs)
    /\ pc' = "done"
    /\ UNCHANGED <<HeadFrame, entity_start_positions, entity_end_positions>>
    /\ UNCHANGED GatherFrame

\* the span positions [batch, K] the caller passed: K spans per item, each a
\* start in the sentence and an end `width` tokens later (clipped to the end)
SpanStarts(B, K, W) == [1..B -> [1..K -> 0..(W - 1)]]
SpanEnds(starts, width, W) ==
    [b \in 1..Len(starts) |->
        [k \in 1..Len(starts[b]) |->
            IF starts[b][k] + width > W - 1 THEN W - 1 ELSE starts[b][k] + width]]

EntitySpanClassification ==
    /\ pc = "head"
    /\ head' = "LukeForEntitySpanClassification"
    /\ \E K \in 1..MaxEnt : \E starts \in SpanStarts(input_shape[1], K, input_shape[2]) :
          \E width \in 0..(input_shape[2] - 1) :
            LET ends == SpanEnds(starts, width, input_shape[2])
            IN  /\ entity_start_positions' = starts
                /\ entity_end_positions' = ends
                /\ result' = LukeForEntitySpanClassification_forward(outputs, starts, ends)
    /\ pc' = "done"
    /\ UNCHANGED HeadFrame
    /\ UNCHANGED GatherFrame

QuestionAnswering ==
    /\ pc = "head"
    /\ head' = "LukeForQuestionAnswering"
    /\ result' = LukeForQuestionAnswering_forward(outputs, input_shape)
    /\ pc' = "done"
    /\ UNCHANGED <<HeadFrame, entity_start_positions, entity_end_positions>>
    /\ UNCHANGED GatherFrame

\* the call is over: nothing of it is kept
Return ==
    /\ pc = "done"
    /\ pc' = "idle"
    /\ input_shape' = None
    /\ entity_shape' = None
    /\ layer_i' = 0
    /\ outputs' = None
    /\ head' = "none"
    /\ entity_start_positions' = None
    /\ entity_end_positions' = None
    /\ result' = [status |-> "none", value |-> <<>>]
    /\ UNCHANGED <<num_hidden_layers, input_ids, entity_ids, arg_attention_mask,
                   arg_entity_attention_mask, attention_mask, word_hidden_states,
                   entity_hidden_states, self_outputs,
                   self_attention_outputs>>
    /\ UNCHANGED GatherFrame

Next ==
    \/ Call
    \/ BuildAttentionMask
    \/ Embed
    \/ EncoderLayer
    \/ LukeModelReturn
    \/ LukeModelCaller
    \/ MaskedLM
    \/ EntityClassification
    \/ EntityPairClassification
    \/ EntitySpanClassification
    \/ QuestionAnswering
    \/ Return

Spec == Init /\ [][Next]_vars

\* ======================= properties =======================

\* the [word; entity] sequence a layer attends over
ConcatHidden == IF entity_hidden_states = None THEN word_hidden_states
                ELSE ConcatSeq(word_hidden_states, entity_hidden_states)

\* a layer is about to run on the current hidden states
LayerRuns == pc = "encoder" /\ layer_i < num_hidden_layers

\* the query projection the attention variant names for score entry (i, j),
\* i and j 1-based, W the number of word positions
QueryOf(i, j, W) ==
    IF i <= W /\ j <= W THEN "query"
    ELSE IF i <= W THEN "w2e_query"
    ELSE IF j <= W THEN "e2w_query"
    ELSE "e2e_query"

\* C1: with entity hidden states present (W word positions followed by E entity
\* positions) the score matrix every layer computes has, for every batch item and
\* head, W+E rows of W+E entries, and entry (i, j) is the dot product of the `key`
\* projection of position j of the concatenated sequence with the projection of
\* position i by query / w2e_query / e2w_query / e2e_query according to the
\* block (i, j) lies in.
C1_ScoreBlocks ==
    (LayerRuns /\ entity_hidden_states # None) =>
        LET sc == LukeSelfAttention_scores(word_hidden_states, entity_hidden_states,
                                           attention_mask)
            W == Len(word_hidden_states[1])
            S == W + Len(entity_hidden_states[1])
        IN  /\ Len(sc) = Len(word_hidden_states)
            /\ \A b \in 1..Len(sc) :
                  /\ Len(sc[b]) = num_attention_heads
                  /\ \A h \in 1..num_attention_heads :
                        /\ Len(sc[b][h]) = S
                        /\ \A i \in 1..S :
                              /\ Len(sc[b][h][i]) = S
                              /\ \A j \in 1..S :
                                    sc[b][h][i][j].dot =
                                        [q |-> QueryOf(i, j, W), x |-> ConcatHidden[b][i],
                                         k |-> "key", y |-> ConcatHidden[b][j], head |-> h]

\* a second or later layer is about to compute its scores over at least two
\* word and two entity positions, from the outputs of the layer before it
C1_Witness ==
    /\ LayerRuns
    /\ layer_i >= 1
    /\ entity_hidden_states # None
    /\ Len(word_hidden_states[1]) >= 2
    /\ Len(entity_hidden_states[1]) >= 2
    /\ self_outputs # None

\* the mask has been built (lines 549-575 have run) and is still in scope
MaskBuilt == pc \in {"embed", "encoder"}

\* row b of a mask as the caller passed it, whatever its rank
ArgRow(mask, b) == IF mask.ndim = 2 THEN mask.data[b] ELSE mask.data[b][1][1]

\* the bias of the word key positions of batch item b
WordBias(b) == SubSeq(attention_mask[b][1][1], 1, input_shape[2])
\* the bias of the entity key positions of batch item b
EntityBias(b) == SubSeq(attention_mask[b][1][1], input_shape[2] + 1,
                        Len(attention_mask[b][1][1]))

\* C2: with attention_mask=None the additive bias passed to the encoder is 0 at
\* every word key position, whatever input_ids holds (pad ids included).
C2_NoMaskNoBias ==
    (MaskBuilt /\ arg_attention_mask.dtype = "none") =>
        \A b \in 1..input_shape[1] : \A j \in 1..input_shape[2] : WordBias(b)[j] = 0

\* C3: an int attention_mask of shape [batch, seq] (0 masked, 1 kept) becomes a
\* bias of shape [batch, 1, 1, .] that is -1e4 at exactly the word key positions
\* whose mask value is 0 and 0 at those whose value is 1, and the bias added to
\* the scores of every layer is that value for every head and query position.
C3_IntMaskBias ==
    (MaskBuilt /\ arg_attention_mask.dtype = "int64" /\ arg_attention_mask.ndim = 2) =>
        /\ Len(attention_mask) = input_shape[1]
        /\ \A b \in 1..input_shape[1] :
              /\ Len(attention_mask[b]) = 1
              /\ Len(attention_mask[b][1]) = 1
              /\ Len(attention_mask[b][1][1]) =
                     input_shape[2] + (IF entity_shape = None THEN 0 ELSE entity_shape[2])
              /\ \A j \in 1..input_shape[2] :
                    WordBias(b)[j] =
                        IF arg_attention_mask.data[b][j] = 0 THEN MASK_BIAS ELSE 0
        /\ LayerRuns =>
              LET sc == LukeSelfAttention_scores(word_hidden_states, entity_hidden_states,
                                                 attention_mask)
              IN  \A b \in 1..Len(sc) : \A h \in 1..Len(sc[b]) : \A i \in 1..Len(sc[b][h]) :
                    \A j \in 1..input_shape[2] :
                        sc[b][h][i][j].bias =
                            IF arg_attention_mask.data[b][j] = 0 THEN MASK_BIAS ELSE 0

\* a layer is about to add the bias built from an int mask that masks one of
\* at least two word positions and keeps another
C3_Witness ==
    /\ LayerRuns
    /\ arg_attention_mask.dtype = "int64"
    /\ arg_attention_mask.ndim = 2
    /\ \E b \in 1..input_shape[1] : \E j, k \in 1..input_shape[2] :
          /\ arg_attention_mask.data[b][j] = 0
          /\ arg_attention_mask.data[b][k] = 1
          /\ WordBias(b)[j] = MASK_BIAS
          /\ WordBias(b)[k] = 0

\* a float mask treats its positions as the documentation says: 0 is kept
\* (bias 0), -INF is masked (bias at most -1e4)
FloatMaskHonoured(mask, bias) ==
    \A b \in 1..input_shape[1] : \A j \in 1..Len(ArgRow(mask, b)) :
        /\ ArgRow(mask, b)[j] = 0 => bias[b][j] = 0
        /\ ArgRow(mask, b)[j] = NegInf => bias[b][j] <= MASK_BIAS

\* C4: a float attention_mask or entity_attention_mask (-INF masked, 0 kept), of
\* rank 2 or 4, gives bias 0 at every key position whose mask value is 0 and a
\* strongly negative bias at every key position whose mask value is -INF.
C4_FloatMaskBias ==
    MaskBuilt =>
        /\ arg_attention_mask.dtype = "float32" =>
               FloatMaskHonoured(arg_attention_mask, [b \in 1..input_shape[1] |-> WordBias(b)])
        /\ (entity_shape # None /\ arg_entity_attention_mask.dtype = "float32") =>
               FloatMaskHonoured(arg_entity_attention_mask,
                                 [b \in 1..input_shape[1] |-> EntityBias(b)])

\* C5: with entity_ids the mask passed to the encoder is [word mask; entity mask]
\* along the last axis (W+E columns, the word mask in columns 0..W-1, the entity
\* mask after it); with entity_attention_mask=None the entity part is -1e4
\* exactly where entity_ids is entity_pad_token_id and 0 elsewhere.  Without
\* entity_ids the mask has W columns, whatever entity_attention_mask is.
C5_MaskConcat ==
    MaskBuilt =>
        LET word == ExtendedMask(input_ids, arg_attention_mask, pad_token_id)
        IN  IF entity_ids # None
            THEN \A b \in 1..input_shape[1] :
                   /\ Len(attention_mask[b][1][1]) = input_shape[2] + entity_shape[2]
                   /\ WordBias(b) = word[b][1][1]
                   /\ EntityBias(b) =
                          ExtendedMask(entity_ids, arg_entity_attention_mask,
                                       entity_pad_token_id)[b][1][1]
                   /\ arg_entity_attention_mask.dtype = "none" =>
                          \A j \in 1..entity_shape[2] :
                              EntityBias(b)[j] =
                                  IF entity_ids[b][j] = entity_pad_token_id
                                  THEN MASK_BIAS ELSE 0
            ELSE /\ attention_mask = word
                 /\ \A b \in 1..input_shape[1] :
                        Len(attention_mask[b][1][1]) = input_shape[2]

\* the mask of a call with two word positions whose bias differs from that of
\* the entity positions after them, the entity mask left to its default over a
\* pad and a non-pad entity
C5_Witness ==
    /\ MaskBuilt
    /\ entity_ids # None
    /\ arg_entity_attention_mask.dtype = "none"
    /\ arg_attention_mask.dtype = "float32"
    /\ input_shape[2] = 2
    /\ \E b \in 1..input_shape[1] :
          /\ entity_ids[b] = << TOKEN_ID, entity_pad_token_id >>
          /\ attention_mask[b][1][1] = << 0, NegInf, 0, MASK_BIAS >>

\* the mask of a call without entity_ids that passed an entity_attention_mask
C5_IgnoredWitness ==
    /\ MaskBuilt
    /\ entity_ids = None
    /\ arg_entity_attention_mask.dtype # "none"
    /\ Len(attention_mask[1][1][1]) = input_shape[2]

\* LukeModel.forward has returned to a caller that called it directly
ModelReturned == pc = "done" /\ head = "LukeModel"

\* every vector of a [batch, n] tensor is the layer-`layer` state of stream
\* `stream` at its own position
IsStateOf(t, stream, layer) ==
    \A b \in 1..Len(t) : \A i \in 1..Len(t[b]) :
        t[b][i] = [l |-> layer, s |-> stream, p |-> i - 1]

\* C6: LukeModel.forward returns a 3-tuple (word_hidden_state,
\* entity_hidden_state, pooled_output) in that order: the first is the last-layer
\* word state of shape [batch_size, length of input_ids, hidden_size], the second
\* the last-layer entity state (None without entity inputs), the third the pooler
\* output of shape [batch_size, hidden_size], for every number of layers.
C6_ModelReturns ==
    ModelReturned =>
        /\ result.status = "ok"
        /\ Len(result.value) = 3
        /\ Shape3(Components(result.value[1])) =
               << input_shape[1], input_shape[2], hidden_size >>
        /\ IsStateOf(result.value[1], "w", num_hidden_layers)
        /\ IF entity_shape = None THEN result.value[2] = None
           ELSE IsStateOf(result.value[2], "e", num_hidden_layers)
        /\ Len(result.value[3]) = input_shape[1]
        /\ \A b \in 1..input_shape[1] :
              /\ Len(result.value[3][b]) = hidden_size
              /\ \A h \in 1..hidden_size : result.value[3][b][h].op = "pooler"

\* LukeModel.forward has returned from two layers run over word and entity
\* inputs of different lengths
C6_Witness ==
    /\ ModelReturned
    /\ num_hidden_layers >= 2
    /\ entity_shape # None
    /\ entity_shape[2] # input_shape[2]
    /\ Len(result.value) = 3

Pooled == pc \in {"head", "done"}

\* C8: every component of pooled_output of every batch item is computed from the
\* last-layer word hidden state at position 0 of that item and from no other
\* word or entity position; before the pooler runs, what it will compute reads
\* position 0 whatever id (pad included) input_ids holds there.
C8_PoolerReadsFirstToken ==
    /\ Pooled =>
          \A b \in 1..input_shape[1] : \A h \in 1..hidden_size :
              /\ outputs[3][b][h] = [op |-> "pooler", x |-> outputs[1][b][1], h |-> h]
              /\ outputs[3][b][h].x = [l |-> num_hidden_layers, s |-> "w", p |-> 0]
    /\ (pc = "encoder" /\ layer_i = num_hidden_layers) =>
          \A b \in 1..input_shape[1] : \A h \in 1..hidden_size :
              LukePooler_forward(word_hidden_states)[b][h].x =
                  [l |-> num_hidden_layers, s |-> "w", p |-> 0]

\* the pooler has run on the last-layer states of several word positions and of
\* entity positions
C8_Witness ==
    /\ pc = "head"
    /\ num_hidden_layers >= 1
    /\ input_shape[2] >= 2
    /\ entity_shape # None
    /\ outputs[3][1][1].x = outputs[1][1][1]
    /\ outputs[1][1][2] # outputs[1][1][1]

\* a head's forward has ended
HeadReturned == pc = "done" /\ head # "LukeModel"

\* C9: a forward of any of the five heads that leaves entity_ids None completes
\* and returns its output.
C9_HeadsWithoutEntities ==
    (HeadReturned /\ entity_shape = None) => result.status = "ok"

\* the span head's forward has ended
SpanReturned == pc = "done" /\ head = "LukeForEntitySpanClassification"

\* the features the span head classifies, [batch, K, 3 * hidden_size]: for
\* entity k of item b the start state, the end state (0-based positions of the
\* last-layer word states) and the entity state
SpanFeatures ==
    LET word == Components(outputs[1])
        ent == Components(outputs[2])
    IN  Tup([b \in 1..Len(entity_start_positions) |->
            Tup([k \in 1..Len(entity_start_positions[b]) |->
                word[b][entity_start_positions[b][k] + 1]
                    \o word[b][entity_end_positions[b][k] + 1]
                    \o ent[b][k]])])

\* C10: LukeForEntitySpanClassification.forward completes only when the number
\* of start/end positions per item equals the entity sequence length, and then
\* returns logits of shape [batch_size, num_entities, num_labels] where the
\* feature classified for entity k of item b is the 3*hidden_size concatenation
\* of the word state at entity_start_positions[b][k], the word state at
\* entity_end_positions[b][k] and the entity state of entity k, in this order.
C10_SpanLogits ==
    SpanReturned =>
        LET K == Len(entity_start_positions[1])
        IN  /\ result.status = "ok" <=> (entity_shape # None /\ entity_shape[2] = K)
            /\ result.status = "ok" =>
                  LET feature_vector == SpanFeatures
                  IN  /\ Len(result.value) = input_shape[1]
                      /\ \A b \in 1..input_shape[1] :
                            /\ Len(result.value[b]) = K
                            /\ \A k \in 1..K :
                                  /\ Len(feature_vector[b][k]) = 3 * hidden_size
                                  /\ Len(result.value[b][k]) = num_labels
                                  /\ \A n \in 1..num_labels :
                                        result.value[b][k][n] =
                                            [op |-> "classifier",
                                             x |-> feature_vector[b][k], n |-> n]

\* the span head has returned logits for two spans of a two-word sentence, one
\* of them starting at one word and ending at the other
C10_Witness ==
    /\ SpanReturned
    /\ result.status = "ok"
    /\ num_hidden_layers >= 1
    /\ input_shape[2] = 2
    /\ Len(entity_start_positions[1]) = 2
    /\ entity_start_positions[1] = << 1, 0 >>
    /\ entity_end_positions[1] = << 1, 1 >>
    /\ Len(result.value[1]) = 2


\* LukeModel.forward is running: its arguments are bound
InForward == pc \in {"mask", "embed", "encoder"}

\* the tensors the caller passed to LukeModel.forward
Arguments == << input_ids, entity_ids, arg_attention_mask, arg_entity_attention_mask >>

\* everything a call binds or computes, as it is before any call
NothingKept ==
    /\ input_ids = None
    /\ entity_ids = None
    /\ arg_attention_mask = NoneMask
    /\ arg_entity_attention_mask = NoneMask
    /\ attention_mask = None
    /\ input_shape = None
    /\ entity_shape = None
    /\ word_hidden_states = None
    /\ entity_hidden_states = None
    /\ layer_i = 0
    /\ self_outputs = None
    /\ self_attention_outputs = None
    /\ outputs = None
    /\ head = "none"
    /\ entity_start_positions = None
    /\ entity_end_positions = None
    /\ result = [status |-> "none", value |-> <<>>]

ExpandDefined(x_shape, k, index_shape) ==
    x_shape[k + 1] = 1 \/ x_shape[k + 1] = index_shape[k + 1]

\* the axis gathered along (line 44)
GatherAxis(dim) == IF dim < 0 THEN 3 + dim ELSE dim

\* a call of paddle_gather: its value, or the error of paddle.expand
paddle_gather_call(x, dim, index) ==
    IF \A k \in 0..2 : k = GatherAxis(dim) \/ ExpandDefined(Shape3(x), k, Shape3(index))
    THEN Ok(paddle_gather(x, dim, index))
    ELSE Raised

\* shapes of rank 3
GatherShapes == [1..3 -> 1..MaxExtent]

\* a tensor of shape sh whose element at (b, i, h), 0-based, is << b, i, h >>
GatherX(sh) ==
    Tup([b \in 1..sh[1] |->
        Tup([i \in 1..sh[2] |-> Tup([h \in 1..sh[3] |-> << b - 1, i - 1, h - 1 >>])])])

\* index tensors of shape sh with values in 0..extent-1: an offset plus the
\* coordinates selected by stride, modulo extent
GatherIndex(sh, extent, offset, stride) ==
    Tup([b \in 1..sh[1] |->
        Tup([i \in 1..sh[2] |->
            Tup([h \in 1..sh[3] |->
                (offset + stride[1] * (b - 1) + stride[2] * (i - 1) + stride[3] * (h - 1))
                    % extent])])])

GatherIndexes(sh, extent) ==
    {GatherIndex(sh, extent, offset, stride) :
        offset \in 0..(extent - 1), stride \in [1..3 -> 0..1]}

\* dims of a rank-3 tensor, negative ones counted from the end
GatherDims == -3..2

\* paddle_gather is entered with its arguments bound
GatherInit ==
    /\ NothingKept
    /\ num_hidden_layers = 0
    /\ pc = "gather"
    /\ paddle_out = [status |-> "none", value |-> <<>>]
    /\ \E x_shape \in GatherShapes : \E index_shape \in GatherShapes :
         \E dim \in GatherDims :
            /\ gather_x = GatherX(x_shape)
            /\ gather_dim = dim
            /\ gather_index \in GatherIndexes(index_shape, x_shape[GatherAxis(dim) + 1])

\* lines 41-59
GatherReturn ==
    /\ pc = "gather"
    /\ paddle_out' = paddle_gather_call(gather_x, gather_dim, gather_index)
    /\ pc' = "done"
    /\ UNCHANGED <<num_hidden_layers, input_ids, entity_ids, arg_attention_mask,
                   arg_entity_attention_mask, attention_mask, input_shape, entity_shape,
                   word_hidden_states, entity_hidden_states, layer_i, self_outputs,
                   self_attention_outputs, outputs, head, entity_start_positions,
                   entity_end_positions, result, gather_x, gather_dim, gather_index>>

GatherNext == GatherReturn

GatherSpec == GatherInit /\ [][GatherNext]_vars

\* paddle_gather has ended
Gathered == pc = "done" /\ paddle_out.status # "none"

\* t has an element at the 0-based coordinates c
InTensor(t, c) ==
    /\ c[1] < Shape3(t)[1]
    /\ c[2] < Shape3(t)[2]
    /\ c[3] < Shape3(t)[3]

\* the 0-based coordinates p with the coordinate on axis d replaced by v
OnAxis(p, d, v) == [k \in 1..3 |-> IF k = d + 1 THEN v ELSE p[k]]

\* the positions of a tensor of shape sh, 0-based
Positions(sh) == {<< b, i, h >> : b \in 0..(sh[1] - 1), i \in 0..(sh[2] - 1), h \in 0..(sh[3] - 1)}

\* every position of index, with any coordinate on axis d, is a position of x
WithinX(x_shape, index_shape, d) ==
    \A k \in 0..2 : k = d \/ index_shape[k + 1] <= x_shape[k + 1]

\* C12 as stated: every call whose index positions lie within x returns a
\* tensor of the shape of index whose element at every position p is x at the
\* coordinates of p with the coordinate on axis dim (dim + 3 when negative)
\* replaced by index[p].
C12_GatherAsStated ==
    (Gathered /\ WithinX(Shape3(gather_x), Shape3(gather_index), GatherAxis(gather_dim))) =>
        /\ paddle_out.status = "ok"
        /\ Shape3(paddle_out.value) = Shape3(gather_index)
        /\ \A p \in Positions(Shape3(gather_index)) :
              LET c == OnAxis(p, GatherAxis(gather_dim),
                              gather_index[p[1] + 1][p[2] + 1][p[3] + 1])
              IN  /\ InTensor(gather_x, c)
                  /\ paddle_out.value[p[1] + 1][p[2] + 1][p[3] + 1] =
                         gather_x[c[1] + 1][c[2] + 1][c[3] + 1]

\* C12: a call returns exactly when, on every axis other than dim (dim + 3 when
\* negative), x has the extent of index or extent 1, and raises otherwise; the
\* result has the shape of index and its element at every position p is x at
\* the coordinates of p with the coordinate on axis dim replaced by index[p] and
\* the coordinate on every other axis where x has extent 1 replaced by 0.
C12_Gather ==
    Gathered =>
        LET d == IF gather_dim < 0 THEN gather_dim + 3 ELSE gather_dim
            x_shape == Shape3(gather_x)
            index_shape == Shape3(gather_index)
        IN  /\ paddle_out.status = "ok" <=>
                  \A k \in 0..2 : k = d \/ x_shape[k + 1] = index_shape[k + 1]
                                        \/ x_shape[k + 1] = 1
            /\ paddle_out.status = "ok" =>
                  /\ Shape3(paddle_out.value) = index_shape
                  /\ \A p \in Positions(index_shape) :
                        paddle_out.value[p[1] + 1][p[2] + 1][p[3] + 1] =
                            [k \in 1..3 |->
                                IF k = d + 1
                                THEN gather_index[p[1] + 1][p[2] + 1][p[3] + 1]
                                ELSE IF x_shape[k] = 1 THEN 0 ELSE p[k]]

\* paddle_gather has returned from a call with dim = -2 on an x of extent 2 on
\* every axis, with an index of the same shape that picks, at some position, the
\* element of x on the other coordinate of axis 1
C12_Witness ==
    /\ Gathered
    /\ paddle_out.status = "ok"
    /\ gather_dim = -2
    /\ Shape3(gather_x) = << 2, 2, 2 >>
    /\ Shape3(gather_index) = << 2, 2, 2 >>
    /\ gather_index[1][1][1] = 1
    /\ gather_index[2][2][2] = 0
    /\ paddle_out.value[1][1][1] = << 0, 1, 0 >>
    /\ paddle_out.value[2][2][2] = << 1, 0, 1 >>

\* paddle_gather has raised on an index with fewer rows than x on an axis other
\* than dim
C12_RaisedWitness ==
    /\ Gathered
    /\ paddle_out.status = "error"
    /\ gather_dim = 1
    /\ Shape3(gather_x) = << 2, 2, 1 >>
    /\ Shape3(gather_index) = << 1, 2, 1 >>


\* C13: while LukeEncoder.forward runs, the loop index never passes
\* num_hidden_layers, the (word, entity) states it holds at index i are the
\* outputs of exactly i layers applied in turn to the embeddings (the outputs of
\* one layer being the inputs of the next), and the mask every layer gets is the
\* mask LukeModel.forward built; what is returned is the output of the last
\* layer, after which no layer runs.
C13_LayersInOrder ==
    /\ pc = "encoder" =>
          /\ layer_i \in 0..num_hidden_layers
          /\ IsStateOf(word_hidden_states, "w", layer_i)
          /\ Len(word_hidden_states[1]) = input_shape[2]
          /\ IF entity_ids = None THEN entity_hidden_states = None
             ELSE /\ IsStateOf(entity_hidden_states, "e", layer_i)
                  /\ Len(entity_hidden_states[1]) = entity_shape[2]
          /\ attention_mask =
                 LukeModel_attention_mask(input_ids, arg_attention_mask,
                                          entity_ids, arg_entity_attention_mask)
    /\ Pooled =>
          /\ layer_i = num_hidden_layers
          /\ IsStateOf(outputs[1], "w", num_hidden_layers)
          /\ IF entity_shape = None THEN outputs[2] = None
             ELSE IsStateOf(outputs[2], "e", num_hidden_layers)

\* the loop has run its last layer, the second or a later one, over word and
\* entity states, and no layer is left to run
C13_Witness ==
    /\ pc = "encoder"
    /\ num_hidden_layers >= 2
    /\ layer_i = num_hidden_layers
    /\ entity_ids # None
    /\ word_hidden_states[1][1].l = num_hidden_layers
    /\ entity_hidden_states[1][1].l = num_hidden_layers
    /\ self_attention_outputs # None


=============================================================================
